---- MODULE Spec2Model ----
(***************************************************************************)
(* chopper: filtering and trimming of fastq records (src/src/main.rs).     *)
(*                                                                         *)
(* filter(input, args) reads records, decides for each one whether it is   *)
(* printed (trimmed) or dropped, and prints the ones that pass.  With a    *)
(* contamination reference (args.contam = Some) the records are handled by *)
(* the calling thread one after the other; without one they are handled by *)
(* the threads of rayon's global pool through par_bridge.                  *)
(*                                                                         *)
(* Numbers of type usize are modelled with UsizeBits bits (the program has *)
(* 64); f64 quality scores are modelled by their integer part, computed    *)
(* from a table of the error probabilities 10^(q/-10) scaled by 10^8, with *)
(* the inputs listed on which the f64 arithmetic ends just below the       *)
(* integer the exact value is.  Sequences and quality lines are bytes.     *)
(***************************************************************************)
EXTENDS Integers, Sequences, FiniteSets, Bags, TLC

\* ------------------------------------------------------------------ bounds
UsizeBits == 4    \* width of the modelled usize
MaxLen    == 3    \* longest sequence of a record
MaxStream == 2    \* units held by the input streams of one run, in total
MaxPool   == 2    \* largest thread count (configured, or of the global pool)
MaxHits   == 2    \* longest alignment list the aligner returns

RECURSIVE Pow2(_)
Pow2(n) == IF n = 0 THEN 1 ELSE 2 * Pow2(n - 1)

UsizeMod == Pow2(UsizeBits)
UsizeMax == UsizeMod - 1

None == "None"

\* ------------------------------------------------------- wrapping integers
\* a + b on usize.  With overflow checks (debug profile) an overflowing
\* addition panics; without them (release profile) it wraps.
AddOverflows(a, b) == a + b > UsizeMax
WrapAdd(a, b) == (a + b) % UsizeMod

\* a - b on usize, likewise.
SubOverflows(a, b) == b > a
WrapSub(a, b) == (a - b + UsizeMod) % UsizeMod

\* --------------------------------------------------------------- ave_qual
\* 10^(q / -10) for q in 0..30, scaled by 10^8 and rounded.
ProbTable ==
  << 100000000, 79432823, 63095734, 50118723, 39810717, 31622777,
     25118864, 19952623, 15848932, 12589254, 10000000, 7943282, 6309573,
     5011872, 3981072, 3162278, 2511886, 1995262, 1584893, 1258925,
     1000000, 794328, 630957, 501187, 398107, 316228, 251189, 199526,
     158489, 125893, 100000 >>

\* 10_f64.powf((*q as f64) / -10.0)
Prob(q) == ProbTable[q + 1]

RECURSIVE SumProb(_)
\* quals.iter().map(|q| 10^(q / -10)).sum()
SumProb(quals) ==
  IF quals = << >> THEN 0 ELSE Prob(Head(quals)) + SumProb(Tail(quals))

\* The slices of n equal codes k (n up to 8) whose exact score is k and
\* whose f64 score is just below it: [10, 10, 10] gives 9.999999999999998,
\* [2] gives 1.9999999999999998, while [10] gives 10.0.
RoundsBelow ==
  {<<1, 7>>, <<10, 3>>} \cup {<<2, n>> : n \in 1..8}

\* The integer part of (sum / n).log10() * -10.0 as f64 computes it: the
\* largest k with 10^(k / -10) >= sum / n, less one where the mean is
\* 10^(k / -10) itself and the f64 result falls below k.
PhredFloor(sum, n) ==
  LET k == CHOOSE j \in 0..(Len(ProbTable) - 1) :
             /\ Prob(j) * n >= sum
             /\ (j < Len(ProbTable) - 1 => Prob(j + 1) * n < sum)
  IN  IF Prob(k) * n = sum /\ <<k, n>> \in RoundsBelow THEN k - 1 ELSE k

\* fn ave_qual(quals: &[u8]) -> f64.  An empty slice gives 0.0 / 0.0, a NaN.
ave_qual(quals) ==
  LET probability_sum == SumProb(quals)
  IN  IF Len(quals) = 0
      THEN [nan |-> TRUE, score |-> 0]
      ELSE [nan |-> FALSE, score |-> PhredFloor(probability_sum, Len(quals))]

\* average_quality >= args.minqual (false for a NaN)
QualGE(average_quality, minqual) ==
  ~average_quality.nan /\ average_quality.score >= minqual

\* ---------------------------------------------------------------- records
\* The bases of a sequence of length n: the bytes of A, C, G, T in turn.
Bases(n) == [i \in 1..n |-> <<65, 67, 71, 84>>[((i - 1) % 4) + 1]]

\* A sequence of n >= 2 bytes that ends in a two-byte character (the bytes
\* 195, 169 of U+00E9): valid text as a whole, as the reader requires of a
\* line, but not if cut between the two.
BasesMultibyte(n) == Bases(n - 2) \o <<195, 169>>

\* Quality codes (raw bytes of the quality line) the model draws from.
QualCodes == {10, 20}

RECURSIVE SeqsOfLen(_, _)
SeqsOfLen(S, n) ==
  IF n = 0 THEN {<< >>}
  ELSE {<<x>> \o t : x \in S, t \in SeqsOfLen(S, n - 1)}

SeqsUpTo(S, n) == UNION {SeqsOfLen(S, k) : k \in 0..n}

\* bio::io::fastq::Record: id, desc, seq, qual.  The reader does not compare
\* the lengths of seq and qual.
MkRecord(id, desc, seq, qual) ==
  [id |-> id, desc |-> desc, seq |-> seq, qual |-> qual]

\* record.is_empty(): id, desc, seq and qual are all empty.
is_empty(record) ==
  /\ record.id = ""
  /\ record.desc = None
  /\ record.seq = << >>
  /\ record.qual = << >>

\* s[from..to] of a slice, for from <= to <= len.
Slice(s, from, to) == [i \in 1..(to - from) |-> s[from + i]]

Continuation(b) == b >= 128 /\ b <= 191

RECURSIVE Utf8Valid(_)
\* std::str::from_utf8(bytes).is_ok()
Utf8Valid(bytes) ==
  IF bytes = << >> THEN TRUE
  ELSE
    LET b == bytes[1]
        n == Len(bytes)
        rest(k) == SubSeq(bytes, k + 1, n)
    IN  IF b < 128 THEN Utf8Valid(rest(1))
        ELSE IF b >= 194 /\ b <= 223
        THEN n >= 2 /\ Continuation(bytes[2]) /\ Utf8Valid(rest(2))
        ELSE IF b >= 224 /\ b <= 239
        THEN /\ n >= 3
             /\ Continuation(bytes[2]) /\ Continuation(bytes[3])
             /\ (b = 224 => bytes[2] >= 160)
             /\ (b = 237 => bytes[2] <= 159)
             /\ Utf8Valid(rest(3))
        ELSE IF b >= 240 /\ b <= 244
        THEN /\ n >= 4
             /\ Continuation(bytes[2]) /\ Continuation(bytes[3])
             /\ Continuation(bytes[4])
             /\ (b = 240 => bytes[2] >= 144)
             /\ (b = 244 => bytes[2] <= 143)
             /\ Utf8Valid(rest(4))
        ELSE FALSE

\* match record.desc() { Some(d) => format!("{} {}", id, d), None => id }
Header(record) ==
  IF record.desc # None
  THEN <<record.id, " ", record.desc>>
  ELSE <<record.id>>

\* ------------------------------------------------------ contamination
\* A Mapping of the aligner: target_name is Some(name) or None.
Mappings == {[target_name |-> "ref"], [target_name |-> None]}

\* What contam.map(readseq, ...) returns: Err, or Ok(list of mappings).
MapResults ==
  {[ok |-> FALSE, hits |-> << >>]}
    \cup {[ok |-> TRUE, hits |-> h] : h \in SeqsUpTo(Mappings, MaxHits)}

\* No query was made.
NoQuery == [ok |-> TRUE, hits |-> <<[target_name |-> "unqueried"]>>]

\* alignment[0] is out of bounds.
IndexPanics(alignment) == Len(alignment) = 0

\* alignment[0].target_name.is_some()
is_contamination(alignment) == alignment[1].target_name # None

\* ------------------------------------------------------------ the closure
Drop(why) == [outcome |-> "Drop", why |-> why, lines |-> << >>]
Panic(why) == [outcome |-> "Panic", why |-> why, lines |-> << >>]

\* println!("@{}\n{}\n+\n{}", header, seq[..], qual[..]): the four lines.
Emit(record, from, to) ==
  [outcome |-> "Emit", why |-> "pass",
   lines |-> << <<"@">> \o Header(record),
                Slice(record.seq, from, to),
                <<"+">>,
                Slice(record.qual, from, to) >>]

\* args.headcrop + args.tailcrop < read_len, on wrapped usize values.
TrimFeasible(args, read_len) ==
  WrapAdd(args.headcrop, args.tailcrop) < read_len

GateLen_trimmed(args, read_len) == read_len - args.headcrop - args.tailcrop

\* The length the length filter looks at.
GateLen(args, read_len) == read_len

\* The quality codes the quality filter looks at.
GateQual(args, record) == record.qual

\* average_quality >= minqual && read_len >= minlength && read_len <= maxlength
PassesGates(args, record) ==
  LET read_len == Len(record.seq)
      average_quality == ave_qual(GateQual(args, record))
  IN  /\ QualGE(average_quality, args.minqual)
      /\ GateLen(args, read_len) >= args.minlength
      /\ GateLen(args, read_len) <= args.maxlength

\* The query to the aligner is made only when the three gates before it in
\* the && chain pass, and only with a contamination reference.
Queries(args, checks, record) ==
  /\ args.contam
  /\ ~is_empty(record)
  /\ ~(checks /\ AddOverflows(args.headcrop, args.tailcrop))
  /\ TrimFeasible(args, Len(record.seq))
  /\ PassesGates(args, record)

\* The body of the for_each closure for one parsed record; `checks` says
\* whether the build has overflow checks, `alignment` is what the aligner
\* answers if it is asked.
Evaluate(args, checks, record, alignment) ==
  IF is_empty(record) THEN Drop("empty")
  ELSE
    LET read_len == Len(record.seq) IN
    IF checks /\ AddOverflows(args.headcrop, args.tailcrop)
    THEN Panic("attempt to add with overflow")
    ELSE IF ~TrimFeasible(args, read_len) THEN Drop("crop")
    ELSE IF ~PassesGates(args, record) THEN Drop("gates")
    ELSE IF args.contam /\ ~alignment.ok THEN Panic("Unable to align")
    ELSE IF args.contam /\ IndexPanics(alignment.hits)
    THEN Panic("index out of bounds")
    ELSE IF args.contam /\ is_contamination(alignment.hits)
    THEN Drop("contamination")
    ELSE IF checks /\ SubOverflows(read_len, args.tailcrop)
    THEN Panic("attempt to subtract with overflow")
    ELSE
      LET end == WrapSub(read_len, args.tailcrop) IN
      IF args.headcrop > end \/ end > read_len
      THEN Panic("slice index out of range")
      ELSE IF ~Utf8Valid(Slice(record.seq, args.headcrop, end))
      THEN Panic("Utf8Error")
      ELSE IF end > Len(record.qual)
      THEN Panic("range end index out of range for slice")
      ELSE IF ~Utf8Valid(Slice(record.qual, args.headcrop, end))
      THEN Panic("Utf8Error")
      ELSE Emit(record, args.headcrop, end)

\* ------------------------------------------------------------------ state
VARIABLES
  args,      \* the Cli: minqual, minlength, maxlength, headcrop, tailcrop,
             \* threads, contam (TRUE for Some(path))
  checks,    \* the build has overflow checks (debug) or not (release)
  ncpus,     \* threads of rayon's global pool (its default: the CPU count)
  passed,    \* the stream filter() is given as `input`
  streams,   \* the units of each stream still to be parsed, as the reader
             \* will yield them: Ok(record) or Err
  pos,       \* units read so far from each stream
  phase,     \* "setup", "running", "finished" or "aborted"
  pc,        \* per thread: "off", "idle", "have", "print", "locked",
             \* "done", "panicked"
  item,      \* per thread: the unit it holds and the lines it prints
  lock,      \* holders of the lock of stdout
  wrote,     \* per thread: lines of its record written so far
  out,       \* the lines written to stdout, in order
  log        \* the closure calls made so far and how each ended

vars ==
  <<args, checks, ncpus, passed, streams, pos, phase, pc, item, lock,
    wrote, out, log>>

StreamNames == {"stdin", "file"}

\* Thread 0 is the thread that calls filter(); 1..MaxPool are pool threads.
ThreadIds == 0..MaxPool

NoItem == [src |-> "none", idx |-> 0, lines |-> << >>]

ErrUnit == [ok |-> FALSE, rec |-> MkRecord("", None, << >>, << >>)]
OkUnit(record) == [ok |-> TRUE, rec |-> record]

Threads_pool(a, n) == 1..n

\* The threads that run the closure: the caller itself with a contamination
\* reference (Iterator::for_each), else the threads of the global pool
\* (par_bridge().for_each); the pool built from args.threads is dropped
\* unused.
Threads(a, n) == IF a.contam THEN {0} ELSE 1..n

\* The stream the records are read from: `input` with a contamination
\* reference, io::stdin() without.
Source(a, p) == IF a.contam THEN p ELSE "stdin"

NextPos_skip(p) == p + 2

\* The position of the iterator after next().
NextPos(p) == p + 1

CanLock_always(l) == TRUE

\* println! takes the lock of stdout for the whole call.
CanLock(l) == l = {}

Busy(w) == pc[w] \in {"have", "print", "locked"}

\* ---------------------------------------------------------------- actions
\* Some(ref fas) => let aligner = setup_contamination_filter(fas): the index
\* is built (or the expect panics), then the caller iterates.
SetupScreened ==
  /\ phase = "setup"
  /\ args.contam
  /\ \E built \in BOOLEAN :
       IF built
       THEN /\ phase' = "running"
            /\ pc' = [w \in ThreadIds |-> IF w \in Threads(args, ncpus)
                                          THEN "idle" ELSE "off"]
       ELSE /\ phase' = "aborted"
            /\ pc' = pc
  /\ UNCHANGED <<args, checks, ncpus, passed, streams, pos, item, lock,
                 wrote, out, log>>

\* None => ThreadPoolBuilder::new().num_threads(args.threads).build().unwrap()
\* builds a pool and drops it; par_bridge() then runs on the global pool.
SetupUnscreened ==
  /\ phase = "setup"
  /\ ~args.contam
  /\ phase' = "running"
  /\ pc' = [w \in ThreadIds |-> IF w \in Threads(args, ncpus)
                                THEN "idle" ELSE "off"]
  /\ UNCHANGED <<args, checks, ncpus, passed, streams, pos, item, lock,
                 wrote, out, log>>

\* records().next(): the thread takes the next unit of the stream (under
\* par_bridge's mutex in the pool), or finds the stream at its end.
NextUnit(w) ==
  /\ phase = "running"
  /\ pc[w] = "idle"
  /\ LET src == Source(args, passed) IN
     IF pos[src] < Len(streams[src])
     THEN /\ pos' = [pos EXCEPT ![src] = NextPos(pos[src])]
          /\ item' = [item EXCEPT ![w] =
                        [src |-> src, idx |-> pos[src] + 1, lines |-> << >>]]
          /\ pc' = [pc EXCEPT ![w] = "have"]
     ELSE /\ pc' = [pc EXCEPT ![w] = "done"]
          /\ UNCHANGED <<pos, item>>
  /\ UNCHANGED <<args, checks, ncpus, passed, streams, phase, lock, wrote,
                 out, log>>

\* The closure up to the println!: record.unwrap(), then the checks.
Call(w) ==
  /\ phase = "running"
  /\ pc[w] = "have"
  /\ LET unit == streams[item[w].src][item[w].idx] IN
     IF ~unit.ok
     THEN /\ log' = log \cup {[src |-> item[w].src, idx |-> item[w].idx,
                               outcome |-> "Panic", why |-> "parse error",
                               alignment |-> NoQuery]}
          /\ pc' = [pc EXCEPT ![w] = "panicked"]
          /\ item' = [item EXCEPT ![w] = NoItem]
     ELSE \E alignment \in (IF Queries(args, checks, unit.rec)
                            THEN MapResults ELSE {NoQuery}) :
            LET res == Evaluate(args, checks, unit.rec, alignment) IN
            /\ log' = log \cup {[src |-> item[w].src, idx |-> item[w].idx,
                                 outcome |-> res.outcome, why |-> res.why,
                                 alignment |-> alignment]}
            /\ pc' = [pc EXCEPT ![w] =
                        CASE res.outcome = "Emit" -> "print"
                          [] res.outcome = "Drop" -> "idle"
                          [] OTHER -> "panicked"]
            /\ item' = [item EXCEPT ![w] =
                          IF res.outcome = "Emit"
                          THEN [item[w] EXCEPT !.lines = res.lines]
                          ELSE NoItem]
  /\ UNCHANGED <<args, checks, ncpus, passed, streams, pos, phase, lock,
                 wrote, out>>

\* println!: lock stdout,
Lock(w) ==
  /\ phase = "running"
  /\ pc[w] = "print"
  /\ CanLock(lock)
  /\ lock' = {w}
  /\ pc' = [pc EXCEPT ![w] = "locked"]
  /\ UNCHANGED <<args, checks, ncpus, passed, streams, pos, phase, item,
                 wrote, out, log>>

\* write the next of the four lines,
Write(w) ==
  /\ phase = "running"
  /\ pc[w] = "locked"
  /\ wrote[w] < Len(item[w].lines)
  /\ out' = Append(out, [src |-> item[w].src, idx |-> item[w].idx,
                         line |-> wrote[w] + 1,
                         text |-> item[w].lines[wrote[w] + 1]])
  /\ wrote' = [wrote EXCEPT ![w] = wrote[w] + 1]
  /\ UNCHANGED <<args, checks, ncpus, passed, streams, pos, phase, pc, item,
                 lock, log>>

\* and unlock it: the closure returns.
Unlock(w) ==
  /\ phase = "running"
  /\ pc[w] = "locked"
  /\ wrote[w] = Len(item[w].lines)
  /\ lock' = {}
  /\ wrote' = [wrote EXCEPT ![w] = 0]
  /\ item' = [item EXCEPT ![w] = NoItem]
  /\ pc' = [pc EXCEPT ![w] = "idle"]
  /\ UNCHANGED <<args, checks, ncpus, passed, streams, pos, phase, out, log>>

\* for_each returns when every thread is through, or resumes the panic of
\* one of them.
Join ==
  /\ phase = "running"
  /\ \A w \in Threads(args, ncpus) : pc[w] \in {"done", "panicked"}
  /\ phase' = IF \E w \in Threads(args, ncpus) : pc[w] = "panicked"
              THEN "aborted" ELSE "finished"
  /\ UNCHANGED <<args, checks, ncpus, passed, streams, pos, pc, item, lock,
                 wrote, out, log>>

Next ==
  \/ SetupScreened
  \/ SetupUnscreened
  \/ \E w \in ThreadIds : NextUnit(w)
  \/ \E w \in ThreadIds : Call(w)
  \/ \E w \in ThreadIds : Lock(w)
  \/ \E w \in ThreadIds : Write(w)
  \/ \E w \in ThreadIds : Unlock(w)
  \/ Join

\* ------------------------------------------------------------ initial states
InitRun ==
  /\ pos = [s \in StreamNames |-> 0]
  /\ phase = "setup"
  /\ pc = [w \in ThreadIds |-> "off"]
  /\ item = [w \in ThreadIds |-> NoItem]
  /\ lock = {}
  /\ wrote = [w \in ThreadIds |-> 0]
  /\ out = << >>
  /\ log = {}

\* Runs of the whole pipeline: short streams of three kinds of unit under a
\* trimming configuration, every pool size and both modes.
PipelineUnits ==
  { ErrUnit,
    OkUnit(MkRecord("r1", None, Bases(MaxLen), [i \in 1..MaxLen |-> 20])),
    OkUnit(MkRecord("r2", "d", Bases(MaxLen), [i \in 1..MaxLen |-> 10])) }

PipelineArgs ==
  { [minqual |-> 12, minlength |-> 2, maxlength |-> UsizeMax,
     headcrop |-> 1, tailcrop |-> 1, threads |-> t, contam |-> c] :
       t \in 1..MaxPool, c \in BOOLEAN }

Init ==
  /\ args \in PipelineArgs
  /\ checks \in BOOLEAN
  /\ ncpus \in 1..MaxPool
  /\ passed \in StreamNames
  /\ \E f \in SeqsUpTo(PipelineUnits, MaxStream) :
     \E s \in SeqsUpTo(PipelineUnits, MaxStream - Len(f)) :
       /\ passed = "stdin" => f = << >>
       /\ streams = [n \in StreamNames |-> IF n = "file" THEN f ELSE s]
  /\ InitRun

Spec == Init /\ [][Next]_vars

\* Runs over one record: every record up to MaxLen under every combination
\* of crop counts (the large ones included), thresholds, mode and build.
CropValues == {0, 1, 2, UsizeMax}

\* The records: with and without description, quality line as long as the
\* sequence; quality line shorter or longer than the sequence; a sequence
\* that ends in a two-byte character.
EvalRecords ==
  {MkRecord("r", d, Bases(Len(q)), q) :
     d \in {None, "d"}, q \in SeqsUpTo(QualCodes, MaxLen)}
    \cup {MkRecord("r", None, Bases(n), q) :
            n \in 0..MaxLen, q \in SeqsUpTo(QualCodes, MaxLen) \ {<< >>}}
    \cup {MkRecord("r", None, BasesMultibyte(MaxLen), q) :
            q \in SeqsOfLen(QualCodes, MaxLen)}

EvalArgs ==
  { [minqual |-> q, minlength |-> lo, maxlength |-> hi,
     headcrop |-> h, tailcrop |-> t, threads |-> 1, contam |-> c] :
       q \in {0, 10, 12}, lo \in {1, 2}, hi \in {2, UsizeMax},
       h \in CropValues, t \in CropValues, c \in BOOLEAN }

EvalInit ==
  /\ args \in EvalArgs
  /\ checks \in BOOLEAN
  /\ ncpus = 1
  /\ passed = "stdin"
  /\ \E r \in EvalRecords :
       streams = [n \in StreamNames |->
                    IF n = "stdin" THEN <<OkUnit(r)>> ELSE << >>]
  /\ InitRun

EvalSpec == EvalInit /\ [][Next]_vars

\* ================================================================= claims
RecOf(e) == streams[e.src][e.idx].rec
Parsed(e) == streams[e.src][e.idx].ok
ReadLen(e) == Len(RecOf(e).seq)
BusyThreads == {w \in ThreadIds : Busy(w)}

\* The filters of the specification, on the untrimmed record.
LengthOk(a, record) ==
  Len(record.seq) >= a.minlength /\ Len(record.seq) <= a.maxlength
QualityOk(a, record) == QualGE(ave_qual(record.qual), a.minqual)
Accepts(a, record) ==
  /\ a.headcrop + a.tailcrop < Len(record.seq)
  /\ LengthOk(a, record)
  /\ QualityOk(a, record)

\* The record keeps the invariant of the data model (quality as long as the
\* sequence) and its trimmed sequence is valid text, so printing it raises
\* no error.
Printable(a, record) ==
  /\ Len(record.qual) = Len(record.seq)
  /\ a.headcrop + a.tailcrop < Len(record.seq)
  /\ Utf8Valid(Slice(record.seq, a.headcrop, Len(record.seq) - a.tailcrop))

\* The records of `out` whose header line was written, as a bag of positions.
HeaderLines(src, idx) ==
  {i \in 1..Len(out) : out[i].src = src /\ out[i].idx = idx /\ out[i].line = 1}
LinesOf(src, idx) ==
  {i \in 1..Len(out) : out[i].src = src /\ out[i].idx = idx}

\* C1: a record with headcrop + tailcrop >= len(sequence) is dropped,
\* whatever the configuration.
C1_CropDrops ==
  \A e \in log :
    (Parsed(e) /\ args.headcrop + args.tailcrop >= ReadLen(e))
      => e.outcome = "Drop"

\* (The other half of C1, which the code keeps: whatever is emitted is the
\* non-empty in-bounds slice [headcrop, read_len - tailcrop).)
EmittedInBounds ==
  \A e \in log :
    e.outcome = "Emit" =>
      /\ args.headcrop + args.tailcrop < ReadLen(e)
      /\ \A w \in ThreadIds :
           (item[w].src = e.src /\ item[w].idx = e.idx) =>
             /\ item[w].lines[2] = Slice(RecOf(e).seq, args.headcrop,
                                         ReadLen(e) - args.tailcrop)
             /\ item[w].lines[4] = Slice(RecOf(e).qual, args.headcrop,
                                         ReadLen(e) - args.tailcrop)

\* C2: for a record that trimming leaves non-empty, the length and quality
\* filters decide on the untrimmed length and the untrimmed quality codes:
\* a record is emitted only if both pass on the untrimmed record, is dropped
\* if one fails there, and without a contamination reference is never
\* dropped when both pass: it is emitted, unless printing it is a fatal error
\* (quality line shorter than the sequence, trimmed bytes no valid text); the
\* emitted sequence has read_len - headcrop - tailcrop bases.
C2_GatesUntrimmed ==
  /\ \A e \in log :
       (Parsed(e) /\ args.headcrop + args.tailcrop < ReadLen(e)) =>
         LET pass == LengthOk(args, RecOf(e)) /\ QualityOk(args, RecOf(e)) IN
         /\ e.outcome = "Emit" => pass
         /\ ~pass => e.outcome = "Drop"
         /\ (pass /\ ~args.contam) =>
              /\ e.outcome # "Drop"
              /\ Printable(args, RecOf(e)) => e.outcome = "Emit"
  /\ \A i \in 1..Len(out) :
       out[i].line \in {2, 4} =>
         Len(out[i].text) =
           Len(RecOf(out[i]).seq) - args.headcrop - args.tailcrop

\* C2's case: a record is printed whose trimmed sequence is shorter than
\* minlength and whose trimmed quality codes average below minqual.
C2_Witness ==
  \E i \in 1..Len(out) :
    /\ out[i].line = 4
    /\ Len(out[i].text) < args.minlength
    /\ ~QualGE(ave_qual(out[i].text), args.minqual)

\* C3: with a contamination reference, a (printable) record that passes the
\* crop, quality and length checks is dropped exactly if the aligner's list is
\* non-empty and its first entry has a target name, and is emitted when the
\* list is empty.
C3_ContaminationBoolean ==
  \A e \in log :
    (/\ args.contam
     /\ Parsed(e)
     /\ Accepts(args, RecOf(e))
     /\ Printable(args, RecOf(e))
     /\ e.alignment.ok) =>
      LET hits == e.alignment.hits IN
      /\ e.outcome \in {"Drop", "Emit"}
      /\ e.outcome = "Drop" <=>
           (Len(hits) > 0 /\ hits[1].target_name # None)
      /\ Len(hits) = 0 => e.outcome = "Emit"

\* C4: with a contamination reference at most one record is being handled at
\* any time, the records are handled in input order, and the output has the
\* emitted records in input order.
C4_ScreenedSequential ==
  args.contam =>
    /\ Cardinality(BusyThreads) <= 1
    /\ \A e \in log : e.idx <= pos[e.src]
    /\ \A w \in ThreadIds :
         Busy(w) =>
           /\ item[w].idx = pos[item[w].src]
           /\ \A k \in 1..(item[w].idx - 1) : \E e \in log : e.idx = k
    /\ \A i, j \in 1..Len(out) : i < j => out[i].idx <= out[j].idx

\* C4's case: two records were read and printed, one after the other.
C4_Witness ==
  /\ args.contam
  /\ \E i, j \in 1..Len(out) :
       i < j /\ out[i].line = 4 /\ out[j].line = 4 /\ out[i].idx < out[j].idx

\* C5: without a contamination reference, whatever the thread count and the
\* interleaving, no record is printed twice, none is printed that the
\* filters reject, and a run that ends normally has printed every record of
\* the stream it read that the filters accept.
C5_SameRecords ==
  ~args.contam =>
    LET src == Source(args, passed) IN
    /\ \A i \in 1..Len(out) :
         /\ out[i].src = src
         /\ streams[src][out[i].idx].ok
         /\ Accepts(args, streams[src][out[i].idx].rec)
    /\ \A k \in 1..Len(streams[src]) : Cardinality(HeaderLines(src, k)) <= 1
    /\ phase = "finished" =>
         \A k \in 1..Len(streams[src]) :
           Accepts(args, streams[src][k].rec) =>
             Cardinality(LinesOf(src, k)) = 4

\* C5's case: a run on two or more pool threads ended with two records
\* printed against input order.
C5_Witness ==
  /\ ~args.contam
  /\ phase = "finished"
  /\ ncpus >= 2
  /\ \E i, j \in 1..Len(out) : i < j /\ out[i].idx > out[j].idx

\* C6: without a contamination reference the four lines of a record are
\* written next to each other, in order, under every interleaving.
C6_RecordsContiguous ==
  ~args.contam =>
    \A i \in 1..Len(out) :
      IF out[i].line = 1
      THEN i = 1 \/ out[i - 1].line = 4
      ELSE /\ i > 1
           /\ out[i - 1].src = out[i].src
           /\ out[i - 1].idx = out[i].idx
           /\ out[i - 1].line = out[i].line - 1

\* C6's case: one thread is in the middle of its record's lines while another
\* has a record to print.
C6_Witness ==
  /\ ~args.contam
  /\ \E v, w \in ThreadIds :
       /\ pc[v] = "locked" /\ wrote[v] \in 1..3
       /\ pc[w] = "print"

ParseErrorSeen == \E e \in log : e.why = "parse error"

\* C7: once a unit the reader cannot parse is met, no further record is
\* handled and nothing more is written.
C7_ParseErrorStops ==
  [][ParseErrorSeen => (out' = out /\ log' = log /\ pos' = pos)]_vars

\* C8: filter(input, args) reads the stream it is given and no other, and
\* handles each of its records once.
C8_ReadsItsInput ==
  /\ \A s \in StreamNames : s # passed => pos[s] = 0
  /\ \A e \in log : e.src = passed
  /\ \A i \in 1..Len(out) : out[i].src = passed
  /\ phase = "finished" =>
       \A k \in 1..Len(streams[passed]) :
         \E e \in log : e.src = passed /\ e.idx = k

\* C10: at most args.threads records are being handled at any time without a
\* contamination reference, at most one with it.
C10_ConcurrencyBound ==
  Cardinality(BusyThreads) <= (IF args.contam THEN 1 ELSE args.threads)

====
